---------------------------- MODULE Spec2Model ----------------------------
(***************************************************************************)
(* Model of the image-scaling subsystem of OPL Image Converter:            *)
(*   - the resampling scalers and BaseScaler.scale_with_aspect             *)
(*     (image_scaling/algorithms/*.py),                                    *)
(*   - ScalingManager (image_scaling/scaling_manager.py),                  *)
(*   - ImageProcessorEnhanced (image_scaling/image_processor_enhanced.py), *)
(*   - the batch worker threads and the Convert action                     *)
(*     (opl_image_converter_pyqt.py, image_scaling/ui_integration.py).     *)
(*                                                                         *)
(* A raster is a record: its canvas size (w, h), the size of the resampled *)
(* content (cw, ch) and where it was pasted (ox, oy), the resampling       *)
(* kernel, the processing steps applied so far (ops), one sample content   *)
(* pixel (px) and the padding colour (pad).                                *)
(*                                                                         *)
(* Arithmetic: Python computes the content size in binary floating point   *)
(* (w / h, then int(...)); the model computes the same quotients exactly   *)
(* and truncates them.                                                     *)
(***************************************************************************)
EXTENDS Integers, Sequences, FiniteSets, TLC

VARIABLES
    call,            \* the arguments of the function call (specifications of one function)
    ret,             \* its result, NoResult before the call
    current_method,  \* ScalingManager.current_method
    default_method,  \* ScalingManager.default_method
    app,             \* OPLImageConverterApp fields read by the Convert action
    threads,         \* the worker threads created so far, in creation order
    clock,           \* wall clock, in seconds (datetime.now())
    disk             \* the output files written: path -> what was written

vars == <<call, ret, current_method, default_method, app, threads, clock, disk>>

\* The state of the application and its worker threads.
batchVars == <<app, threads, clock, disk>>

\* ---------------------------------------------------------------- bounds

\* Largest source and target dimension of the pure-function specifications.
MaxDim == 4

\* ------------------------------------------------------ program constants

\* Pixel channels are 8-bit.
MaxChannel == 255

NoResult == [outcome |-> "none"]

Ok(v) == [outcome |-> "ok", value |-> v]

Raise(e) == [outcome |-> "raise", error |-> e]

\* ScalingMethod (scaling_manager.py), by value.
ScalingMethods ==
    {"lanczos", "bicubic", "bilinear", "nearest", "box", "hamming", "ps2_optimized"}

\* ImageProcessorEnhanced.ALGORITHM_METHODS: algorithm name -> PIL filter.
ALGORITHM_METHODS ==
    [a \in {"lanczos", "bicubic", "bilinear", "nearest", "box", "hamming"} |->
        CASE a = "lanczos"  -> "LANCZOS"
          [] a = "bicubic"  -> "BICUBIC"
          [] a = "bilinear" -> "BILINEAR"
          [] a = "nearest"  -> "NEAREST"
          [] a = "box"      -> "BOX"
          [] a = "hamming"  -> "HAMMING"]

Black == <<0, 0, 0>>

\* ----------------------------------------------------------------- rasters

\* An image as opened from a file and converted to RGB: no processing yet.
SourceImage(w, h, p) ==
    [w |-> w, h |-> h, cw |-> w, ch |-> h, ox |-> 0, oy |-> 0,
     kernel |-> "none", ops |-> <<>>, px |-> p, pad |-> <<>>]

\* Image.resize((w, h), kernel): PIL refuses a size with a dimension below 1
\* ("height and width must be > 0"); env.broken are the kernels whose
\* resampling primitive raises on this input.
ImageResize(img, w, h, kernel, env) ==
    IF w < 1 \/ h < 1 THEN Raise("ValueError")
    ELSE IF kernel \in env.broken THEN Raise("ResampleError")
    ELSE Ok([img EXCEPT !.w = w, !.h = h, !.cw = w, !.ch = h,
                        !.kernel = kernel, !.ops = Append(@, "resize")])

\* Image.new('RGB', (tw, th), bg) followed by new_img.paste(resized, (ox, oy)).
PasteCentered(resized, tw, th, bg, ox, oy) ==
    [resized EXCEPT !.w = tw, !.h = th, !.ox = ox, !.oy = oy, !.pad = bg]


\* The padding colour after a content-dependent filter: black padding stays
\* black under the contrast, saturation, smoothing and sharpen filters used
\* here; an image without padding has none; any other colour is changed as the
\* content is.
FilteredPad(img, env) ==
    IF img.pad = <<>> \/ img.pad = Black THEN img.pad ELSE env.filtered

\* A PIL filter or enhancer applied to the whole image (ImageFilter.SHARPEN,
\* ImageFilter.SMOOTH_MORE, ImageEnhance.Contrast/Color(...).enhance(f)): the
\* sample pixel's new value depends on its neighbourhood and on the image
\* mean, so it is the environment's env.filtered; env.stepfail are the steps
\* that raise on this image.
ApplyFilter(img, name, env) ==
    IF name \in env.stepfail THEN Raise(name)
    ELSE Ok([img EXCEPT !.ops = Append(@, name), !.px = env.filtered,
                        !.pad = FilteredPad(img, env)])

\* np.round: round to the nearest integer, ties to the even one, of v / s.
NpRound(v, s) ==
    LET q == v \div s
        r == v % s
    IN  IF 2 * r < s THEN q
        ELSE IF 2 * r > s THEN q + 1
        ELSE IF q % 2 = 0 THEN q ELSE q + 1

\* The assignment of the float result into the uint8 array and
\* astype('uint8'): the value is reduced modulo 2^8.
CastUint8(x) == x % (MaxChannel + 1)

\* One channel of step 6: np.round(v / s) * s stored back as uint8.
QuantizeChannel(v, s) == CastUint8(NpRound(v, s) * s)

Quantize565_SwappedSteps(p) ==
    IF p = <<>> THEN p
    ELSE <<QuantizeChannel(p[1], 4), QuantizeChannel(p[2], 8), QuantizeChannel(p[3], 4)>>

\* Step 6 on one pixel: 5-6-5 levels, steps 8, 4, 8.
Quantize565(p) ==
    IF p = <<>> THEN p
    ELSE <<QuantizeChannel(p[1], 8), QuantizeChannel(p[2], 4), QuantizeChannel(p[3], 8)>>

\* Step 6 on the whole array: every pixel of the image, padding included.
QuantizeImage(img, env) ==
    IF "quantize" \in env.stepfail THEN Raise("quantize")
    ELSE Ok([img EXCEPT !.ops = Append(@, "quantize"),
                        !.px = Quantize565(@), !.pad = Quantize565(@)])

\* ------------------------------------------------------------------ scalers

LanczosScaler_scale(img, w, h, env) == ImageResize(img, w, h, "LANCZOS", env)

BicubicScaler_scale(img, w, h, env) == ImageResize(img, w, h, "BICUBIC", env)

BilinearScaler_scale(img, w, h, env) == ImageResize(img, w, h, "BILINEAR", env)

NearestScaler_scale(img, w, h, env) == ImageResize(img, w, h, "NEAREST", env)

BoxScaler_scale(img, w, h, env) == ImageResize(img, w, h, "BOX", env)

HammingScaler_scale(img, w, h, env) == ImageResize(img, w, h, "HAMMING", env)

\* F applied to the value of the expression v: as in Python, v is evaluated
\* once, before F runs.
Strict(v, F(_)) == CHOOSE out \in {F(x) : x \in {v}} : TRUE

\* The next statement F of a function body runs, on the image so far, only if
\* the statements before it did not raise: r is their outcome.
Then(r, F(_)) == Strict(r, LAMBDA x : IF x.outcome = "ok" THEN F(x.value) ELSE x)

ThenFilter(r, name, env) == Then(r, LAMBDA img : ApplyFilter(img, name, env))

ThenResize(r, w, h, kernel, env) == Then(r, LAMBDA img : ImageResize(img, w, h, kernel, env))

\* try: <quantize> except Exception: <log a warning>; return resized
OrKeep(quantized, resized) ==
    Strict(quantized, LAMBDA q : IF q.outcome = "ok" THEN q ELSE Ok(resized))

ThenQuantizeBestEffort(r, env) ==
    Then(r, LAMBDA resized : OrKeep(QuantizeImage(resized, env), resized))

PS2OptimizedScaler_scale_SaturationFirst(img, w, h, env) ==
    ThenQuantizeBestEffort(
        ThenFilter(
            ThenFilter(
                ThenFilter(
                    ThenResize(ApplyFilter(img, "sharpen", env), w, h, "LANCZOS", env),
                    "saturation_1.15", env),
                "contrast_1.10", env),
            "smooth_more", env),
        env)

\* PS2OptimizedScaler.scale: sharpen, resize, contrast, saturation and smooth
\* are unguarded, in this order; the quantization is best-effort.
PS2OptimizedScaler_scale(img, w, h, env) ==
    ThenQuantizeBestEffort(
        ThenFilter(
            ThenFilter(
                ThenFilter(
                    ThenResize(ApplyFilter(img, "sharpen", env), w, h, "LANCZOS", env),
                    "contrast_1.10", env),
                "saturation_1.15", env),
            "smooth_more", env),
        env)

\* self.scalers[method].scale(image, w, h)
Scaler_scale(method, img, w, h, env) ==
    CASE method = "lanczos"       -> LanczosScaler_scale(img, w, h, env)
      [] method = "bicubic"       -> BicubicScaler_scale(img, w, h, env)
      [] method = "bilinear"      -> BilinearScaler_scale(img, w, h, env)
      [] method = "nearest"       -> NearestScaler_scale(img, w, h, env)
      [] method = "box"           -> BoxScaler_scale(img, w, h, env)
      [] method = "hamming"       -> HammingScaler_scale(img, w, h, env)
      [] method = "ps2_optimized" -> PS2OptimizedScaler_scale(img, w, h, env)

\* --------------------------------------------------- aspect-preserving resize

\* aspect_ratio > target_ratio, with aspect_ratio = sw / sh and
\* target_ratio = tw / th.
WidthConstrained(sw, sh, tw, th) == sw * th > tw * sh

\* The content size: (tw, int(tw / aspect_ratio)) when width-constrained,
\* (int(th * aspect_ratio), th) otherwise.
ContentSize(sw, sh, tw, th) ==
    IF WidthConstrained(sw, sh, tw, th)
    THEN [w |-> tw, h |-> (tw * sh) \div sw]
    ELSE [w |-> (th * sw) \div sh, h |-> th]

\* Image.new('RGB', (tw, th), bg) and the centred paste of the resized content,
\* reached only if the resize did not raise.
ThenPaste(resized, tw, th, bg, new) ==
    Then(resized, LAMBDA img : Ok(PasteCentered(img, tw, th, bg,
                                                (tw - new.w) \div 2, (th - new.h) \div 2)))

\* BaseScaler.scale_with_aspect, inherited by every scaler.
BaseScaler_scale_with_aspect(method, img, tw, th, bg, env) ==
    ThenPaste(Scaler_scale(method, img, ContentSize(img.w, img.h, tw, th).w,
                           ContentSize(img.w, img.h, tw, th).h, env),
              tw, th, bg, ContentSize(img.w, img.h, tw, th))

\* ImageProcessorEnhanced._resize_with_aspect: the same computation, the
\* padding always black.
ImageProcessorEnhanced_resize_with_aspect(img, tw, th, resize_method, env) ==
    ThenPaste(ImageResize(img, ContentSize(img.w, img.h, tw, th).w,
                          ContentSize(img.w, img.h, tw, th).h, resize_method, env),
              tw, th, Black, ContentSize(img.w, img.h, tw, th))

\* A guarded enhancement step of the processor's pipeline: try the step and, if
\* it raises, log a warning and keep the image as it was.
TryFilter(img, name, env) ==
    IF name \in env.stepfail THEN img ELSE ApplyFilter(img, name, env).value

ThenTryFilter(r, name, env) == Then(r, LAMBDA img : Ok(TryFilter(img, name, env)))

\* if maintain_aspect: self._resize_with_aspect(...) else: img.resize(...)
ThenResizeTo(r, tw, th, maintain_aspect, resize_method, env) ==
    Then(r, LAMBDA img :
        IF maintain_aspect
        THEN ImageProcessorEnhanced_resize_with_aspect(img, tw, th, resize_method, env)
        ELSE ImageResize(img, tw, th, resize_method, env))

\* ImageProcessorEnhanced._resize_ps2_optimized: sharpen, resize and smooth are
\* unguarded, contrast and saturation are skipped on error, the quantization
\* is best-effort.
ImageProcessorEnhanced_resize_ps2_optimized(img, tw, th, maintain_aspect, env) ==
    ThenQuantizeBestEffort(
        ThenFilter(
            ThenTryFilter(
                ThenTryFilter(
                    ThenResizeTo(ApplyFilter(img, "sharpen", env), tw, th,
                                 maintain_aspect, "LANCZOS", env),
                    "contrast_1.10", env),
                "saturation_1.15", env),
            "smooth_more", env),
        env)

\* ------------------------------------------------------------ environments

\* Number of faults (raising resampling kernels or pipeline steps) one
\* environment holds at most.
MaxFaults == 1

Kernels == {"LANCZOS", "BICUBIC", "BILINEAR", "NEAREST", "BOX", "HAMMING"}

\* The steps of the PS2 pipeline, in the order of the source.
PS2Steps ==
    <<"sharpen", "resize", "contrast_1.10", "saturation_1.15", "smooth_more", "quantize">>

FilterSteps == {"sharpen", "contrast_1.10", "saturation_1.15", "smooth_more", "quantize"}

\* An environment in which nothing raises; filters leave the sample pixel at p.
CleanEnv(p) == [broken |-> {}, stepfail |-> {}, filtered |-> p]

\* The pixels the small specifications sample: plain values and the top of the
\* range.
SamplePixels == {<<0, 0, 0>>, <<7, 130, 252>>, <<255, 255, 255>>}

\* Every environment with at most MaxFaults faults.
Envs(pixels) ==
    {[broken |-> b, stepfail |-> f, filtered |-> p] :
        b \in {x \in SUBSET Kernels : Cardinality(x) <= MaxFaults},
        f \in {x \in SUBSET FilterSteps : Cardinality(x) <= MaxFaults},
        p \in pixels}

Dims == 1 .. MaxDim

\* ------------------------------------- specification: aspect-preserving resize

\* The inputs of one aspect-preserving resize: a source of sw x sh, a target
\* box of tw x th, the scaler (BaseScaler path) or the PIL filter (processor
\* path).
AspectCalls ==
    {[sw |-> sw, sh |-> sh, tw |-> tw, th |-> th, method |-> m, bg |-> Black,
      env |-> CleanEnv(<<7, 130, 252>>)] :
        sw \in Dims, sh \in Dims, tw \in Dims, th \in Dims, m \in ScalingMethods}

Idle ==
    /\ current_method = "lanczos"
    /\ default_method = "lanczos"
    /\ app = <<>>
    /\ threads = <<>>
    /\ clock = 0
    /\ disk = <<>>

InitAspect ==
    /\ call \in AspectCalls
    /\ ret = NoResult
    /\ Idle

\* scaler.scale_with_aspect(image, tw, th, bg) on the scaler of call.method.
CallScaleWithAspect ==
    /\ ret = NoResult
    /\ ret' = BaseScaler_scale_with_aspect(call.method,
                   SourceImage(call.sw, call.sh, <<7, 130, 252>>),
                   call.tw, call.th, call.bg, call.env)
              @@ [via |-> "scaler"]
    /\ UNCHANGED <<call, current_method, default_method, batchVars>>

\* processor._resize_with_aspect(img, tw, th, resize_method), the filter being
\* the one ALGORITHM_METHODS gives for call.method.
CallResizeWithAspect ==
    /\ ret = NoResult
    /\ call.method \in DOMAIN ALGORITHM_METHODS
    /\ ret' = ImageProcessorEnhanced_resize_with_aspect(
                   SourceImage(call.sw, call.sh, <<7, 130, 252>>),
                   call.tw, call.th, ALGORITHM_METHODS[call.method], call.env)
              @@ [via |-> "processor"]
    /\ UNCHANGED <<call, current_method, default_method, batchVars>>

NextAspect == CallScaleWithAspect \/ CallResizeWithAspect

SpecAspect == InitAspect /\ [][NextAspect]_vars

\* C1: for every algorithm, every source size >= 1x1 and every target box
\* >= 1x1, the aspect-preserving resize (BaseScaler.scale_with_aspect and
\* ImageProcessorEnhanced._resize_with_aspect) returns a raster of exactly
\* TW x TH.
C1_AspectResizeReturnsTargetBox ==
    ret # NoResult =>
        /\ ret.outcome = "ok"
        /\ ret.value.w = call.tw
        /\ ret.value.h = call.th

\* ------------------------------------------------------------ ScalingManager

\* Depth at which Python's recursion limit ends a chain of scale_image calls
\* (RecursionError); the source recurses once at most.
MaxRecursion == 3

\* The arguments of the retry in the except branch:
\* self.scale_image(image, tw, th, self.default_method, maintain_aspect,
\* background_color).
RetryRequest_UsesCurrent(req, mgr) == [req EXCEPT !.method = mgr.current_method]

RetryRequest_DropsAspect(req, mgr) ==
    [req EXCEPT !.method = mgr.default_method, !.maintain_aspect = TRUE]

RetryRequest(req, mgr) == [req EXCEPT !.method = mgr.default_method]

ResolveMethod_UnknownUsesCurrent(method, mgr) ==
    LET m == IF method = "None" THEN mgr.current_method ELSE method
    IN  IF m \notin ScalingMethods THEN mgr.current_method ELSE m

\* The method scale_image ends up using: the current one when none is given,
\* the default one when the given one is not in self.scalers.
ResolveMethod(method, mgr) ==
    LET m == IF method = "None" THEN mgr.current_method ELSE method
    IN  IF m \notin ScalingMethods THEN mgr.default_method ELSE m

\* The body of the try block: scale_with_aspect or scale on the scaler.
InvokeScaler(method, req) ==
    IF req.maintain_aspect
    THEN BaseScaler_scale_with_aspect(method, req.image, req.tw, req.th, req.bg, req.env)
    ELSE Scaler_scale(method, req.image, req.tw, req.th, req.env)

\* A result together with the scalers invoked to get it, in order.
Invoked(r, methods) == r @@ [invoked |-> methods]

Prepend(method, r) == [r EXCEPT !.invoked = <<method>> \o @]

RECURSIVE ScalingManager_scale_image(_, _, _)

\* The end of scale_image once the scaler has returned or raised r: return the
\* image; on an exception retry with the default method unless this was the
\* default method, and re-raise then.
AfterScaler(mgr, req, depth, method, r) ==
    IF r.outcome = "ok" THEN Invoked(r, <<method>>)
    ELSE IF method # mgr.default_method
    THEN Prepend(method, ScalingManager_scale_image(mgr, RetryRequest(req, mgr), depth + 1))
    ELSE Invoked(r, <<method>>)

ScaleWith(mgr, req, depth, method) ==
    Strict(InvokeScaler(method, req), LAMBDA r : AfterScaler(mgr, req, depth, method, r))

\* ScalingManager.scale_image. The result carries, besides the returned image
\* or the raised exception, the scalers invoked, in order.
ScalingManager_scale_image(mgr, req, depth) ==
    IF depth > MaxRecursion THEN Invoked(Raise("RecursionError"), <<>>)
    ELSE ScaleWith(mgr, req, depth, ResolveMethod(req.method, mgr))

ScalingManager_set_scaling_method_ResetsOnUnknown(mgr, method) ==
    IF method \in ScalingMethods
    THEN [current_method |-> method, returned |-> TRUE]
    ELSE [current_method |-> mgr.default_method, returned |-> FALSE]

ScalingManager_set_scaling_method_AssignsUnchecked(mgr, method) ==
    [current_method |-> method, returned |-> method \in ScalingMethods]

\* ScalingManager.set_scaling_method: the new current method and the value
\* returned.
ScalingManager_set_scaling_method(mgr, method) ==
    IF method \in ScalingMethods
    THEN [current_method |-> method, returned |-> TRUE]
    ELSE [current_method |-> mgr.current_method, returned |-> FALSE]

\* ------------------------------------------ specification: the scaling manager

\* Largest source dimension of the manager's requests.
MaxScaleDim == 2

Manager == [current_method |-> current_method, default_method |-> default_method]

\* What a caller may pass as method: a ScalingMethod, nothing, or a value that
\* is no key of self.scalers.
MethodArgs == ScalingMethods \cup {"None", "mitchell"}

ScaleEnvs ==
    {[broken |-> b, stepfail |-> f, filtered |-> <<7, 130, 252>>] :
        b \in {x \in SUBSET Kernels : Cardinality(x) <= MaxFaults},
        f \in {{}, {"contrast_1.10"}, {"quantize"}}}

ScaleCalls ==
    {[op |-> "scale_image", image |-> SourceImage(sw, sh, <<7, 130, 252>>),
      tw |-> 2, th |-> 1, method |-> m, maintain_aspect |-> a, bg |-> bg,
      env |-> e] :
        sw \in 1 .. MaxScaleDim, sh \in 1 .. MaxScaleDim,
        m \in MethodArgs, a \in BOOLEAN, bg \in {Black, <<9, 9, 9>>}, e \in ScaleEnvs}

\* The manager as constructed; call is the scale_image request about to be
\* made.
InitScale ==
    /\ call \in ScaleCalls
    /\ ret = NoResult
    /\ current_method = "lanczos"
    /\ default_method = "lanczos"
    /\ app = <<>>
    /\ threads = <<>>
    /\ clock = 0
    /\ disk = <<>>

\* manager.set_scaling_method(m), any number of times before the request.
CallSetScalingMethod ==
    \E m \in MethodArgs \ {"None"} :
        /\ ret = NoResult
        /\ current_method' = ScalingManager_set_scaling_method(Manager, m).current_method
        /\ UNCHANGED <<call, ret, default_method, batchVars>>

\* manager.scale_image(image, tw, th, method, maintain_aspect, bg)
CallScaleImage ==
    /\ ret = NoResult
    /\ ret' = ScalingManager_scale_image(Manager, call, 1)
    /\ UNCHANGED <<call, current_method, default_method, batchVars>>

NextScale == CallSetScalingMethod \/ CallScaleImage

SpecScale == InitScale /\ [][NextScale]_vars

\* The scale_image call of the state, made directly with the default method.
DirectDefault ==
    ScalingManager_scale_image(Manager, [call EXCEPT !.method = default_method], 1)

\* The state follows a scale_image call with a known, non-default method whose
\* scaler raised while the default scaler succeeds on the same request.
FellBack ==
    /\ ret # NoResult
    /\ call.method \in ScalingMethods
    /\ call.method # default_method
    /\ InvokeScaler(call.method, call).outcome = "raise"
    /\ InvokeScaler(default_method, call).outcome = "ok"

\* C3: when a known non-default algorithm's scaler raises and the default
\* scaler succeeds, scale_image returns, without raising, exactly what it
\* returns when called directly with the default algorithm and the same image,
\* target size, maintain_aspect flag and background colour.
C3_FallbackEqualsDirectDefault ==
    FellBack =>
        /\ ret.outcome = "ok"
        /\ DirectDefault.outcome = "ok"
        /\ ret.value = DirectDefault.value

\* A fallback happened on an aspect-preserving request with a non-black
\* background.
C3_Witness ==
    /\ FellBack
    /\ call.maintain_aspect
    /\ call.bg # Black
    /\ ret.outcome = "ok"
    /\ ret.invoked = <<call.method, "lanczos">>

\* C4: every scale_image call ends after at most two scaler invocations; a
\* second invocation is the default algorithm's and follows a failed
\* non-default one; when the default algorithm fails, first or as the retry,
\* the exception reaches the caller.
C4_AtMostOneRetryTowardDefault ==
    ret # NoResult =>
        LET n == Len(ret.invoked)
        IN  /\ n \in {1, 2}
            /\ n = 2 => /\ ret.invoked[2] = default_method
                        /\ ret.invoked[1] # default_method
            /\ (/\ ret.invoked[n] = default_method
                /\ InvokeScaler(default_method, call).outcome = "raise")
                   => ret.outcome = "raise"
            /\ ret.outcome = "raise" => ret.invoked[n] = default_method

\* A call whose first choice and whose retry both failed.
C4_Witness ==
    /\ ret # NoResult
    /\ Len(ret.invoked) = 2
    /\ ret.outcome = "raise"

\* ------------------------------------------- specification: the PS2 pipeline

\* A pixel whose three channels each take every 8-bit value as v does.
PixelOf(v) == <<v, (v + 85) % (MaxChannel + 1), MaxChannel - v>>

\* The inputs of one PS2 pipeline run: source and target size, the
\* maintain_aspect flag, and the environment; env.filtered is the sample
\* pixel as the smoothing step leaves it.
PS2Calls ==
    {[image |-> SourceImage(sw, sh, PixelOf(0)), tw |-> 2, th |-> 1,
      maintain_aspect |-> a, bg |-> Black, method |-> "ps2_optimized",
      env |-> [broken |-> b, stepfail |-> f, filtered |-> PixelOf(v)]] :
        sw \in 1 .. MaxScaleDim, sh \in 1 .. MaxScaleDim, a \in BOOLEAN,
        b \in {{}, {"LANCZOS"}},
        f \in {x \in SUBSET FilterSteps : Cardinality(x) <= MaxFaults},
        v \in 0 .. MaxChannel}

InitPS2 ==
    /\ call \in PS2Calls
    /\ ret = NoResult
    /\ Idle

\* The dispatcher's scaler: PS2OptimizedScaler.scale, through
\* scale_with_aspect when maintain_aspect is set.
CallPS2Scaler ==
    /\ ret = NoResult
    /\ ret' = InvokeScaler("ps2_optimized", call) @@ [via |-> "scaler"]
    /\ UNCHANGED <<call, current_method, default_method, batchVars>>

\* The conversion's pipeline: ImageProcessorEnhanced._resize_ps2_optimized.
CallPS2Processor ==
    /\ ret = NoResult
    /\ ret' = ImageProcessorEnhanced_resize_ps2_optimized(
                  call.image, call.tw, call.th, call.maintain_aspect, call.env)
              @@ [via |-> "processor"]
    /\ UNCHANGED <<call, current_method, default_method, batchVars>>

NextPS2 == CallPS2Scaler \/ CallPS2Processor

SpecPS2 == InitPS2 /\ [][NextPS2]_vars

\* Red and blue are multiples of 8, green is a multiple of 4, all in [0, 255].
Is565(p) ==
    /\ p[1] % 8 = 0
    /\ p[2] % 4 = 0
    /\ p[3] % 8 = 0
    /\ \A c \in 1 .. 3 : p[c] \in 0 .. 255

Steps(img) == {img.ops[i] : i \in DOMAIN img.ops}

\* C9: whatever 8-bit value each channel has when it enters the quantization
\* step, the pixel the step produces has red and blue multiples of 8, green a
\* multiple of 4 and every channel in [0, 255]; the conversion's pipeline
\* returns an image of the target size all of whose pixels, padding included,
\* are such.
C9_QuantizedPixelsAre565 ==
    (ret # NoResult /\ ret.outcome = "ok" /\ "quantize" \in Steps(ret.value)) =>
        /\ Is565(ret.value.px)
        /\ ret.via = "processor" =>
              /\ ret.value.w = call.tw
              /\ ret.value.h = call.th
              /\ ret.value.pad # <<>> => Is565(ret.value.pad)

\* A red channel of 252 (np.round(31.5) = 32, 32 * 8 = 256) went through the
\* conversion's quantization step.
C9_Witness ==
    /\ ret # NoResult
    /\ ret.outcome = "ok"
    /\ ret.via = "processor"
    /\ "quantize" \in Steps(ret.value)
    /\ call.env.filtered[1] = 252

\* Position of a step in the pipeline's order, 0 for any other step.
StepIndex(name) ==
    IF \E i \in DOMAIN PS2Steps : PS2Steps[i] = name
    THEN CHOOSE i \in DOMAIN PS2Steps : PS2Steps[i] = name
    ELSE 0

\* C10: in both implementations and for both values of maintain_aspect, the
\* steps the pipeline executed are steps of the order sharpen, Lanczos resize,
\* contrast x1.10, saturation x1.15, smoothing, quantization, each executed
\* after the ones that precede it in this order, with no other step among
\* them; when no step fails, all six are executed.
C10_PS2StepOrder ==
    (ret # NoResult /\ ret.outcome = "ok") =>
        LET ops == ret.value.ops
        IN  /\ \A i \in DOMAIN ops : StepIndex(ops[i]) > 0
            /\ \A i, j \in DOMAIN ops : i < j => StepIndex(ops[i]) < StepIndex(ops[j])
            /\ ret.value.kernel = "LANCZOS"
            /\ call.env.stepfail = {} => ops = PS2Steps

\* The scaler's pipeline ran all six steps on an aspect-preserving request.
C10_Witness ==
    /\ ret # NoResult
    /\ ret.outcome = "ok"
    /\ ret.via = "scaler"
    /\ call.maintain_aspect
    /\ ret.value.ops = PS2Steps

\* ------------------------------------------------------ conversion pipeline

\* ImageProcessorEnhanced.DIMENSIONS (and ImageProcessor.DIMENSIONS): slot
\* type -> target (width, height).
DIMENSIONS ==
    [t \in {"caratula", "borde", "contracaratula", "captura", "fondo", "disco", "logo"} |->
        CASE t = "caratula"       -> <<140, 200>>
          [] t = "borde"          -> <<18, 240>>
          [] t = "contracaratula" -> <<242, 344>>
          [] t = "captura"        -> <<250, 168>>
          [] t = "fondo"          -> <<640, 480>>
          [] t = "disco"          -> <<128, 128>>
          [] t = "logo"           -> <<300, 125>>]

TargetDimensions_DefaultsToCover(image_type) ==
    IF image_type \in DOMAIN DIMENSIONS THEN DIMENSIONS[image_type] ELSE <<140, 200>>

\* self.DIMENSIONS.get(image_type, (0, 0))
TargetDimensions(image_type) ==
    IF image_type \in DOMAIN DIMENSIONS THEN DIMENSIONS[image_type] ELSE <<0, 0>>

\* Image.open(input_path), then convert('RGB') when needed: an unreadable or
\* corrupt file raises.
OpenImage(file) ==
    IF file.readable THEN Ok(SourceImage(file.w, file.h, file.px)) ELSE Raise("UnidentifiedImageError")

ResizeMethod_DefaultsToNearest(algorithm) ==
    IF algorithm \in DOMAIN ALGORITHM_METHODS THEN ALGORITHM_METHODS[algorithm] ELSE "NEAREST"

\* self.ALGORITHM_METHODS.get(algorithm, Image.LANCZOS)
ResizeMethod(algorithm) ==
    IF algorithm \in DOMAIN ALGORITHM_METHODS THEN ALGORITHM_METHODS[algorithm] ELSE "LANCZOS"

\* The scaling stage of convert_resize_image and get_preview: the PS2 pipeline
\* for "ps2_optimized", otherwise the PIL filter ALGORITHM_METHODS gives for
\* the algorithm, LANCZOS when it gives none.
ProcessorScale(img, tw, th, req) ==
    IF req.algorithm = "ps2_optimized"
    THEN ImageProcessorEnhanced_resize_ps2_optimized(img, tw, th, req.maintain_aspect, req.env)
    ELSE ThenResizeTo(Ok(img), tw, th, req.maintain_aspect, ResizeMethod(req.algorithm), req.env)

\* if <flag>: <filter>
ThenFilterIf(r, flag, name, env) ==
    IF flag THEN ThenFilter(r, name, env) ELSE r

PostProcess_SharpenFirst(img, req) ==
    ThenFilterIf(ThenFilterIf(Ok(img), req.sharpen, "sharpen", req.env),
                 req.enhance_contrast, "contrast_1.20", req.env)

\* The optional post-processing: contrast x1.20, then sharpen.
PostProcess(img, req) ==
    ThenFilterIf(ThenFilterIf(Ok(img), req.enhance_contrast, "contrast_1.20", req.env),
                 req.sharpen, "sharpen", req.env)

\* scaled_img.save(output_path, 'PNG', optimize=True)
SaveImage(img, req) ==
    IF "save" \in req.env.stepfail THEN Raise("OSError") ELSE Ok(img)

\* if target_width == 0 or target_height == 0: raise ValueError(...), then the
\* scaling stage.
ThenScale(opened, target, req) ==
    Then(opened, LAMBDA img :
        IF target[1] = 0 \/ target[2] = 0 THEN Raise("ValueError")
        ELSE ProcessorScale(img, target[1], target[2], req))

ThenPostProcess(scaled, req) == Then(scaled, LAMBDA img : PostProcess(img, req))

ThenSave(post, req) == Then(post, LAMBDA img : SaveImage(img, req))

\* The try block of convert_resize_image: the image saved, or the exception
\* raised on the way.
ConvertBody(req) ==
    ThenSave(ThenPostProcess(ThenScale(OpenImage(req.file),
                                       TargetDimensions(req.image_type), req),
                             req),
             req)

CatchAll_OnlyValueError(r, req) ==
    IF r.outcome = "ok" THEN Ok(<<TRUE, req.output_path>>) @@ [saved |-> r.value]
    ELSE IF r.error = "ValueError" THEN Ok(<<FALSE, r.error>>) @@ [saved |-> <<>>]
    ELSE r @@ [saved |-> <<>>]

\* return True, output_path at the end of the try block; except Exception
\* as e: return False, str(e).
CatchAll(r, req) ==
    IF r.outcome = "ok" THEN Ok(<<TRUE, req.output_path>>) @@ [saved |-> r.value]
    ELSE Ok(<<FALSE, r.error>>) @@ [saved |-> <<>>]

\* ImageProcessorEnhanced.convert_resize_image: the value returned (or the
\* exception that escapes) and the image written to output_path, <<>> if none.
ImageProcessorEnhanced_convert_resize_image(req) ==
    Strict(ConvertBody(req), LAMBDA r : CatchAll(r, req))

\* ----------------------------------- specification: one conversion of one file

\* The input files of the pure-function specifications: an unreadable one, a
\* photo, and an elongated strip.
SampleFiles ==
    {[readable |-> FALSE, w |-> 4, h |-> 3, px |-> <<7, 130, 252>>],
     [readable |-> TRUE, w |-> 4, h |-> 3, px |-> <<7, 130, 252>>],
     [readable |-> TRUE, w |-> 3000, h |-> 2, px |-> <<7, 130, 252>>]}

\* The steps of a conversion that may raise besides the resampling itself.
ConvertSteps == FilterSteps \cup {"contrast_1.20", "save"}

ConvertCalls ==
    {[file |-> f, output_path |-> "out/a.png", image_type |-> t, maintain_aspect |-> a,
      algorithm |-> m, enhance_contrast |-> c, sharpen |-> sh,
      env |-> [broken |-> b, stepfail |-> sf, filtered |-> <<7, 130, 252>>]] :
        f \in SampleFiles, t \in DOMAIN DIMENSIONS \cup {"cover"}, a \in BOOLEAN,
        m \in ScalingMethods \cup {"mitchell"}, c \in BOOLEAN, sh \in BOOLEAN,
        b \in {{}, {"LANCZOS"}, {"NEAREST"}},
        sf \in {x \in SUBSET ConvertSteps : Cardinality(x) <= MaxFaults}}

InitConvert ==
    /\ call \in ConvertCalls
    /\ ret = NoResult
    /\ Idle

\* processor.convert_resize_image(input_path, output_path, image_type,
\* maintain_aspect, algorithm, enhance_contrast, sharpen)
CallConvertResizeImage ==
    /\ ret = NoResult
    /\ ret' = ImageProcessorEnhanced_convert_resize_image(call)
    /\ UNCHANGED <<call, current_method, default_method, batchVars>>

NextConvert == CallConvertResizeImage

SpecConvert == InitConvert /\ [][NextConvert]_vars

\* What convert_resize_image may put in the second place of a failure result.
ErrorMessages ==
    {"UnidentifiedImageError", "ValueError", "ResampleError", "OSError"} \cup ConvertSteps

\* C2: convert_resize_image returns (True, output_path) or (False, error
\* message) and lets no exception escape, whichever step fails: image load,
\* slot resolution, scaling, post-processing or save.
C2_ConvertNeverRaises ==
    ret # NoResult =>
        /\ ret.outcome = "ok"
        /\ \/ ret.value = <<TRUE, call.output_path>> /\ ConvertBody(call).outcome = "ok"
           \/ /\ ret.value[1] = FALSE
              /\ ret.value[2] \in ErrorMessages
              /\ ConvertBody(call).outcome = "raise"

\* The save step failed after scaling and post-processing succeeded.
C2_Witness ==
    /\ ret # NoResult
    /\ "save" \in call.env.stepfail
    /\ call.file.readable
    /\ call.enhance_contrast
    /\ ret.value = <<FALSE, "OSError">>

\* The slot table as the specification words it, and with the keys the
\* application uses for the same seven slots, in the same order.
SlotSizes == <<<<140, 200>>, <<18, 240>>, <<242, 344>>, <<250, 168>>,
               <<640, 480>>, <<128, 128>>, <<300, 125>>>>

EnglishSlots == <<"cover", "spine", "back", "screenshot", "background", "disc", "logo">>

SpanishSlots == <<"caratula", "borde", "contracaratula", "captura", "fondo", "disco", "logo">>

\* A conversion that has returned used the table names/SlotSizes: a slot named
\* in names resolved to its size (the conversion got past the slot check, and
\* what it saved without letterbox faults has that size), any other slot
\* string made it return success = false with nothing saved.
UsesSlotTable(names) ==
    ret # NoResult =>
        /\ \A i \in DOMAIN names :
               call.image_type = names[i] =>
                   /\ TargetDimensions(call.image_type) = SlotSizes[i]
                   /\ ret.value # <<FALSE, "ValueError">> \/ call.maintain_aspect
                   /\ ret.value[1] = TRUE =>
                          ret.saved.w = SlotSizes[i][1] /\ ret.saved.h = SlotSizes[i][2]
        /\ (\A i \in DOMAIN names : call.image_type # names[i]) =>
               /\ ret.value[1] = FALSE
               /\ ret.saved = <<>>
               /\ call.file.readable => ret.value[2] = "ValueError"

\* C11 as stated: the seven slots cover, spine, back, screenshot, background,
\* disc and logo resolve to their fixed sizes and any other slot string gives
\* success = false.
C11_EnglishSlotTable == UsesSlotTable(EnglishSlots)

\* C11, amended: the seven slots caratula, borde, contracaratula, captura,
\* fondo, disco and logo resolve to 140x200, 18x240, 242x344, 250x168,
\* 640x480, 128x128 and 300x125, the table is a constant, and a conversion for
\* any other slot string returns success = false instead of going on with a
\* 0x0 target.
C11_SlotTable == UsesSlotTable(SpanishSlots)

\* A readable file was converted for a slot string that is not in the table.
C11_Witness ==
    /\ ret # NoResult
    /\ call.image_type \notin DOMAIN DIMENSIONS
    /\ call.file.readable
    /\ ret.value = <<FALSE, "ValueError">>

\* --------------------------------------------------------- batch conversion

\* Longest file list the user selects.
MaxFiles == 2

\* Number of worker threads created in one run of the application.
MaxBatches == 2

\* Number of user actions (drop, clear, choose directory, convert) in one run.
MaxUiEvents == 3

\* Seconds the wall clock advances during one run.
MaxClock == 1

\* The image files the user can pick from, in the order os.walk lists a
\* folder: a corrupt one, a readable one, and in a subfolder a readable one
\* with the same base name.
SelectionPool == <<"bad.png", "a.png", "sub/a.jpg">>

FileInfo(path) ==
    [readable |-> path # "bad.png", w |-> 4, h |-> 3, px |-> <<7, 130, 252>>]

\* os.path.splitext(os.path.basename(input_file))[0]
BaseName(path) == IF path = "bad.png" THEN "bad" ELSE "a"

\* The file lists a drop or a file dialog delivers: the runs of at most
\* MaxFiles consecutive files of the pool.
Selections ==
    UNION {{SubSeq(SelectionPool, i, j) :
                j \in {k \in DOMAIN SelectionPool : i <= k /\ k - i + 1 <= MaxFiles}} :
           i \in DOMAIN SelectionPool}

\* DEFAULT_OUTPUT_DIR and a directory in which nothing can be created.
OutputDirs == {"OPL_Images", "readonly"}

\* os.makedirs(batch_dir, exist_ok=True) succeeds.
MakedirsOk(output_dir) == output_dir # "readonly"

\* ImageProcessor.convert_resize_image (opl_image_converter_pyqt.py): the same
\* steps with the Lanczos filter and no post-processing.
ImageProcessor_convert_resize_image(req) ==
    Strict(ConvertBody([req EXCEPT !.algorithm = "lanczos",
                                   !.enhance_contrast = FALSE,
                                   !.sharpen = FALSE]),
           LAMBDA r : CatchAll(r, req))

\* ProcessingThread.__init__ / EnhancedProcessingThread.__init__, then start().
NewThread(kind, algorithm, enhance_contrast, sharpen) ==
    [kind |-> kind, input_files |-> app.input_files, output_dir |-> app.output_dir,
     image_type |-> app.image_type, maintain_aspect |-> app.maintain_aspect,
     auto_rename |-> app.auto_rename, algorithm |-> algorithm,
     enhance_contrast |-> enhance_contrast, sharpen |-> sharpen,
     timestamp |-> clock,
     pc |-> "start", i |-> 0, success_count |-> 0,
     attempted |-> <<>>, results |-> <<>>, emitted |-> <<>>, reported |-> FALSE]

BatchDir_TimeOfWrite(th) == <<th.output_dir, <<th.image_type, clock>>>>

\* os.path.join(self.output_dir, f"{self.image_type}_{self.timestamp}")
BatchDir(th) == <<th.output_dir, <<th.image_type, th.timestamp>>>>

\* f"{base_name}_{self.image_type}.png" if auto_rename else f"{base_name}.png"
OutputFilename(th, input_file) ==
    IF th.auto_rename THEN <<BaseName(input_file), th.image_type, "png">>
    ELSE <<BaseName(input_file), "png">>

\* os.path.join(batch_dir, output_filename)
OutputFile(th, input_file) == Append(BatchDir(th), OutputFilename(th, input_file))

\* The arguments of the conversion call of the loop body for one file.
ConversionRequest(th, input_file) ==
    [file |-> FileInfo(input_file), output_path |-> OutputFile(th, input_file),
     image_type |-> th.image_type, maintain_aspect |-> th.maintain_aspect,
     algorithm |-> th.algorithm, enhance_contrast |-> th.enhance_contrast,
     sharpen |-> th.sharpen, env |-> CleanEnv(<<7, 130, 252>>)]

\* self.processor.convert_resize_image(...) in EnhancedProcessingThread.run,
\* ImageProcessor.convert_resize_image(...) in ProcessingThread.run.
ConversionOf(kind, req) ==
    IF kind = "EnhancedProcessingThread"
    THEN ImageProcessorEnhanced_convert_resize_image(req)
    ELSE ImageProcessor_convert_resize_image(req)

SuccessCount_CountsAll(count, success) == count + 1

\* if success: success_count += 1
SuccessCount(count, success) == IF success THEN count + 1 ELSE count

ProgressSignal_OffByOne(th) == <<"progress", th.i, Len(th.input_files)>>

\* self.progress_signal.emit(i + 1, len(self.input_files))
ProgressSignal(th) == <<"progress", th.i + 1, Len(th.input_files)>>

FinishedSignal_Swapped(th) == <<"finished", Len(th.input_files), th.success_count>>

\* self.finished_signal.emit(success_count, len(self.input_files))
FinishedSignal(th) == <<"finished", th.success_count, Len(th.input_files)>>

\* The application after construction (_initialize_variables); integrated says
\* whether integrate_scaling_ui has been applied to the window (main_enhanced).
InitApp(integrated) ==
    [input_files |-> <<>>, output_dir |-> "OPL_Images", image_type |-> "caratula",
     maintain_aspect |-> TRUE, auto_rename |-> FALSE,
     algorithm |-> "lanczos", enhance_contrast |-> FALSE, sharpen |-> FALSE,
     integrated |-> integrated, processing_thread |-> 0, events |-> 0,
     history |-> <<>>]

Init ==
    /\ call = [op |-> "none"]
    /\ ret = NoResult
    /\ current_method = "lanczos"
    /\ default_method = "lanczos"
    /\ \E integrated \in BOOLEAN : app = InitApp(integrated)
    /\ threads = <<>>
    /\ clock = 0
    /\ disk = <<>>

pureVars == <<call, ret, current_method, default_method>>

\* OPLImageConverterApp._handle_drop (also reached from _select_files and
\* _select_folder): a non-empty list replaces the selection.
HandleDrop ==
    \E file_paths \in Selections :
        /\ app.events < MaxUiEvents
        /\ app' = [app EXCEPT !.input_files = file_paths, !.events = @ + 1]
        /\ UNCHANGED <<pureVars, threads, clock, disk>>

\* OPLImageConverterApp._clear_selection
ClearSelection ==
    /\ app.events < MaxUiEvents
    /\ app' = [app EXCEPT !.input_files = <<>>, !.events = @ + 1]
    /\ UNCHANGED <<pureVars, threads, clock, disk>>

\* OPLImageConverterApp._select_output_dir
SelectOutputDir ==
    \E folder \in OutputDirs :
        /\ app.events < MaxUiEvents
        /\ app' = [app EXCEPT !.output_dir = folder, !.events = @ + 1]
        /\ UNCHANGED <<pureVars, threads, clock, disk>>

\* OPLImageConverterApp._on_rename_changed, the stateChanged slot of the
\* auto-rename check box: self.auto_rename = state == Qt.Checked.
OnRenameChanged ==
    /\ app.events < MaxUiEvents
    /\ app' = [app EXCEPT !.auto_rename = ~@, !.events = @ + 1]
    /\ UNCHANGED <<pureVars, threads, clock, disk>>

\* OPLImageConverterApp._process_images, the bound method _create_controls
\* connects to convert_btn.clicked, and so the slot of the Convert button
\* whether or not integrate_scaling_ui has run since: with no file selected
\* it warns and returns; otherwise it creates a ProcessingThread, stores it in
\* self.processing_thread and starts it.
ProcessImages ==
    /\ app.events < MaxUiEvents
    /\ Len(threads) < MaxBatches
    /\ app.input_files # <<>>
    /\ threads' = Append(threads, NewThread("ProcessingThread", "lanczos", FALSE, FALSE))
    /\ app' = [app EXCEPT !.processing_thread = Len(threads) + 1, !.events = @ + 1]
    /\ UNCHANGED <<pureVars, clock, disk>>

\* enhanced_process_images, which integrate_scaling_ui assigns to the
\* attribute app._process_images (the button's connection is not changed by
\* that): a call app._process_images() does the same with an
\* EnhancedProcessingThread carrying the algorithm and the two
\* post-processing flags.
EnhancedProcessImages ==
    /\ app.integrated
    /\ app.events < MaxUiEvents
    /\ Len(threads) < MaxBatches
    /\ app.input_files # <<>>
    /\ threads' = Append(threads, NewThread("EnhancedProcessingThread", app.algorithm,
                                            app.enhance_contrast, app.sharpen))
    /\ app' = [app EXCEPT !.processing_thread = Len(threads) + 1, !.events = @ + 1]
    /\ UNCHANGED <<pureVars, clock, disk>>

\* The wall clock reaches the next second.
Tick ==
    /\ clock < MaxClock
    /\ clock' = clock + 1
    /\ UNCHANGED <<pureVars, app, threads, disk>>

\* run(): os.makedirs(batch_dir, exist_ok=True); an exception here leaves
\* run() and ends the thread.
RunMakedirs(t) ==
    /\ t \in DOMAIN threads
    /\ threads[t].pc = "start"
    /\ threads' = [threads EXCEPT ![t].pc =
                       IF MakedirsOk(threads[t].output_dir) THEN "loop" ELSE "crashed"]
    /\ UNCHANGED <<pureVars, app, clock, disk>>

\* for i, input_file in enumerate(self.input_files): the list is exhausted.
LoopDone(th) == th.i = Len(th.input_files)

\* The loop body up to the progress report: the conversion of the next file
\* and the success count. An exception in the body is logged by the except
\* branch and the loop goes on with the next file, without a progress report.
RunConvert(t) ==
    /\ t \in DOMAIN threads
    /\ threads[t].pc = "loop"
    /\ ~LoopDone(threads[t])
    /\ \E input_file \in {threads[t].input_files[threads[t].i + 1]} :
       \E req \in {ConversionRequest(threads[t], input_file)} :
       \E r \in {ConversionOf(threads[t].kind, req)} :
           IF r.outcome = "ok"
           THEN /\ threads' = [threads EXCEPT
                       ![t].attempted = Append(@, input_file),
                       ![t].results = Append(@, r.value),
                       ![t].success_count = SuccessCount(@, r.value[1]),
                       ![t].pc = "emit"]
                /\ disk' = IF r.value[1]
                           THEN (r.value[2] :> [thread |-> t, file |-> input_file,
                                                image |-> r.saved]) @@ disk
                           ELSE disk
           ELSE /\ threads' = [threads EXCEPT
                       ![t].attempted = Append(@, input_file),
                       ![t].results = Append(@, <<"raised", r.error>>),
                       ![t].i = @ + 1]
                /\ disk' = disk
    /\ UNCHANGED <<pureVars, app, clock>>

\* The progress report that ends the loop body.
RunEmitProgress(t) ==
    /\ t \in DOMAIN threads
    /\ threads[t].pc = "emit"
    /\ threads' = [threads EXCEPT ![t].emitted = Append(@, ProgressSignal(threads[t])),
                                  ![t].i = @ + 1,
                                  ![t].pc = "loop"]
    /\ UNCHANGED <<pureVars, app, clock, disk>>

\* After the loop: the completion report; run() returns.
RunFinish(t) ==
    /\ t \in DOMAIN threads
    /\ threads[t].pc = "loop"
    /\ LoopDone(threads[t])
    /\ threads' = [threads EXCEPT ![t].emitted = Append(@, FinishedSignal(threads[t])),
                                  ![t].pc = "done"]
    /\ UNCHANGED <<pureVars, app, clock, disk>>

\* The entry _processing_finished builds when the completion report
\* (success_count, total_count) of thread t arrives: the timestamp of
\* self.processing_thread, the window's current slot type and output
\* directory. batch notes the thread that sent the report.
HistoryEntry(t, success_count, total_count) ==
    [timestamp |-> threads[app.processing_thread].timestamp,
     date |-> clock,
     type |-> app.image_type,
     total |-> total_count,
     success |-> success_count,
     directory |-> <<app.output_dir,
                     <<app.image_type, threads[app.processing_thread].timestamp>>>>,
     batch |-> t]

\* OPLImageConverterApp._processing_finished, the slot both thread classes'
\* finished_signal is connected to, run by the GUI thread when the report of
\* thread t is delivered: history_manager.add_entry(...).
ProcessingFinished(t) ==
    /\ t \in DOMAIN threads
    /\ threads[t].pc = "done"
    /\ ~threads[t].reported
    /\ \E signal \in {threads[t].emitted[Len(threads[t].emitted)]} :
           app' = [app EXCEPT !.history =
                       Append(@, HistoryEntry(t, signal[2], signal[3]))]
    /\ threads' = [threads EXCEPT ![t].reported = TRUE]
    /\ UNCHANGED <<pureVars, clock, disk>>

\* One step of worker thread t.
ThreadStep(t) == RunMakedirs(t) \/ RunConvert(t) \/ RunEmitProgress(t) \/ RunFinish(t)

Next ==
    \/ HandleDrop
    \/ ClearSelection
    \/ SelectOutputDir
    \/ OnRenameChanged
    \/ ProcessImages
    \/ EnhancedProcessImages
    \/ Tick
    \/ \E t \in 1 .. MaxBatches : ThreadStep(t)
    \/ \E t \in 1 .. MaxBatches : ProcessingFinished(t)

Spec == Init /\ [][Next]_vars

\* ------------------------------------- specification: one worker thread's run

\* The application at the moment a convert handler has constructed and started
\* a worker: any selection, output directory, slot type and check-box values
\* the window lets the user set; with integrate_scaling_ui applied, also any
\* algorithm of the algorithm button and the two post-processing check boxes.
StartedApps ==
    {[InitApp(integrated) EXCEPT !.input_files = files, !.output_dir = dir,
                                 !.image_type = type, !.maintain_aspect = aspect,
                                 !.auto_rename = rename, !.algorithm = algorithm,
                                 !.enhance_contrast = contrast, !.sharpen = sharpen,
                                 !.processing_thread = 1] :
        integrated \in BOOLEAN, files \in Selections, dir \in OutputDirs,
        type \in DOMAIN DIMENSIONS, aspect \in BOOLEAN, rename \in BOOLEAN,
        algorithm \in ScalingMethods, contrast \in BOOLEAN, sharpen \in BOOLEAN}

\* The worker a convert handler constructs from the application's fields:
\* enhanced_process_images if enhanced, _process_images otherwise.
WorkerOf(a, enhanced) ==
    [NewThread(IF enhanced THEN "EnhancedProcessingThread" ELSE "ProcessingThread",
               IF enhanced THEN a.algorithm ELSE "lanczos",
               enhanced /\ a.enhance_contrast,
               enhanced /\ a.sharpen)
        EXCEPT !.input_files = a.input_files, !.output_dir = a.output_dir,
               !.image_type = a.image_type, !.maintain_aspect = a.maintain_aspect,
               !.auto_rename = a.auto_rename]

\* The user has set the window up and a conversion is triggered, by the
\* Convert button (_process_images) or, with integrate_scaling_ui applied, by
\* a call of app._process_images() (enhanced_process_images): the handler
\* constructs the worker and starts it.
StartWorker ==
    /\ threads = <<>>
    /\ app' \in {a \in StartedApps : a.integrated = app.integrated}
    /\ \E enhanced \in {b \in BOOLEAN : b => app.integrated} :
           threads' = <<WorkerOf(app', enhanced)>>
    /\ UNCHANGED <<pureVars, clock, disk>>

NextWorker == StartWorker \/ ThreadStep(1)

SpecWorker == Init /\ [][NextWorker]_vars

\* A started worker thread is scheduled until run() returns or raises.
FairWorker == SpecWorker /\ WF_vars(ThreadStep(1))

\* ------------------------------------------------- properties of a batch

IsProgress(signal) == signal[1] = "progress"

IsFinished(signal) == signal[1] = "finished"

\* The progress reports, and the completion reports, a thread has emitted.
ProgressOf(th) == SelectSeq(th.emitted, IsProgress)

FinishedOf(th) == SelectSeq(th.emitted, IsFinished)

\* The positions of the results that are failures.
Failures(th) == {j \in DOMAIN th.results : th.results[j][1] # TRUE}

\* C5: a batch of n files of which k give a failure result attempts every
\* file, each exactly once and in list order, and completes with success
\* count n - k and total n; a failure does not stop the files after it.
C5_BatchCountsSuccesses ==
    \A t \in DOMAIN threads :
        LET th == threads[t]
            n  == Len(th.input_files)
        IN  /\ Len(th.attempted) <= n
            /\ th.attempted = SubSeq(th.input_files, 1, Len(th.attempted))
            /\ Len(th.results) = Len(th.attempted)
            /\ th.success_count = Len(th.results) - Cardinality(Failures(th))
            /\ th.pc = "done" =>
                   /\ Len(th.results) = n
                   /\ th.emitted[Len(th.emitted)] =
                          <<"finished", n - Cardinality(Failures(th)), n>>

\* A finished batch of two files whose first file failed and whose second
\* file was converted.
C5_Witness ==
    \E t \in DOMAIN threads :
        /\ threads[t].pc = "done"
        /\ Len(threads[t].input_files) = 2
        /\ threads[t].results[1][1] = FALSE
        /\ threads[t].results[2][1] = TRUE
        /\ FinishedOf(threads[t]) = << <<"finished", 1, 2>> >>

\* What never fails of the completion report: at most one, the last thing the
\* thread emits, after a progress report for every file, with
\* 0 <= success <= total = n; a thread whose run() raised has emitted nothing.
CompletionSafe(th) ==
    LET n   == Len(th.input_files)
        fin == FinishedOf(th)
    IN  /\ Len(fin) <= 1
        /\ (th.pc = "done") = (Len(fin) = 1)
        /\ th.pc = "crashed" => th.emitted = <<>>
        /\ Len(fin) = 1 =>
               /\ th.emitted[Len(th.emitted)] = fin[1]
               /\ Len(ProgressOf(th)) = n
               /\ fin[1][3] = n
               /\ fin[1][2] \in 0 .. n

\* C6 as stated: every started batch eventually emits its completion report,
\* whichever steps fail.
C6_EveryBatchCompletes ==
    \A t \in 1 .. MaxBatches :
        (t \in DOMAIN threads) ~> (t \in DOMAIN threads /\ threads[t].pc = "done")

\* C6, amended: every started batch whose batch directory could be created
\* eventually emits its completion report, exactly once, after all progress
\* reports, with 0 <= success <= total = n, whichever conversions fail.
C6_BatchWithDirectoryCompletes ==
    /\ [](\A t \in DOMAIN threads : CompletionSafe(threads[t]))
    /\ \A t \in 1 .. MaxBatches :
           (t \in DOMAIN threads /\ threads[t].pc = "loop")
               ~> (t \in DOMAIN threads /\ threads[t].pc = "done")

\* A batch all of whose files failed has completed, with count 0.
C6_Witness ==
    \E t \in DOMAIN threads :
        /\ threads[t].pc = "done"
        /\ Cardinality(Failures(threads[t])) = Len(threads[t].input_files)
        /\ FinishedOf(threads[t]) = << <<"finished", 0, Len(threads[t].input_files)>> >>

\* C7: the files are processed one at a time in list order and after each one
\* a progress report (i, n) is emitted: the reports are (1, n), (2, n), ... in
\* this order, one per file whose conversion attempt has ended, and (n, n) is
\* reported before the batch completes.
C7_ProgressInOrder ==
    \A t \in DOMAIN threads :
        LET th   == threads[t]
            n    == Len(th.input_files)
            prog == ProgressOf(th)
        IN  /\ \A j \in DOMAIN prog : prog[j] = <<"progress", j, n>>
            /\ th.attempted = SubSeq(th.input_files, 1, Len(th.attempted))
            /\ Len(prog) = th.i
            /\ Len(prog) = IF th.pc = "emit" THEN Len(th.results) - 1 ELSE Len(th.results)
            /\ th.pc = "done" => Len(prog) = n

\* The second file of a batch is being reported: (1, 2) is out, the second
\* conversion has ended, (2, 2) is not out yet.
C7_Witness ==
    \E t \in DOMAIN threads :
        /\ threads[t].pc = "emit"
        /\ Len(threads[t].input_files) = 2
        /\ ProgressOf(threads[t]) = << <<"progress", 1, 2>> >>
        /\ Len(threads[t].results) = 2

\* The worker threads that have been started and whose run() has not ended.
InFlight == {t \in DOMAIN threads : threads[t].pc \notin {"done", "crashed"}}

\* C8: at most one batch is in flight at any time.
C8_AtMostOneBatchInFlight == Cardinality(InFlight) <= 1

\* The output files now on disk under the batch directory of thread th.
FilesIn(th) == {path \in DOMAIN disk : SubSeq(path, 1, 2) = BatchDir(th)}

\* C12: within one batch no two input files are written to the same output
\* path; when the batch completes the output of every converted file is still
\* there, as that file's output, and the batch directory holds success_count
\* files.
C12_OutputPathsDistinct ==
    \A t \in DOMAIN threads :
        LET th == threads[t]
        IN  /\ \A i, j \in DOMAIN th.results :
                   (i < j /\ th.results[i][1] = TRUE /\ th.results[j][1] = TRUE)
                       => th.results[i][2] # th.results[j][2]
            /\ (th.pc = "done" /\ Len(threads) = 1) =>
                   /\ \A i \in DOMAIN th.results :
                          th.results[i][1] = TRUE =>
                              /\ th.results[i][2] \in DOMAIN disk
                              /\ disk[th.results[i][2]].file = th.input_files[i]
                   /\ Cardinality(FilesIn(th)) = th.success_count

\* The name the claim gives an output file: "{basename}_{slot}.png" with
\* auto-rename, "{basename}.png" without.
NameFor(basename, slot, rename) ==
    IF rename THEN <<basename, slot, "png">> ELSE <<basename, "png">>

\* C13: every file a batch has written lies at
\* <output_dir>/<slot>_<timestamp>/<name>, with the output directory, slot and
\* auto-rename flag the batch was created with, one timestamp for all files of
\* the batch, taken no later than any write, and <name> built from the input's
\* base name as the auto-rename flag says.
C13_OutputPath ==
    /\ \A path \in DOMAIN disk :
           LET th == threads[disk[path].thread]
           IN  /\ Len(path) = 3
               /\ path[1] = th.output_dir
               /\ path[2] = <<th.image_type, th.timestamp>>
               /\ path[3] = NameFor(BaseName(disk[path].file), th.image_type,
                                    th.auto_rename)
    /\ \A p, q \in DOMAIN disk :
           disk[p].thread = disk[q].thread => (p[1] = q[1] /\ p[2] = q[2])
    /\ \A t \in DOMAIN threads : threads[t].timestamp <= clock

\* A batch created with auto-rename set has written a file after the clock
\* moved on from the batch's timestamp.
C13_Witness ==
    \E path \in DOMAIN disk :
        /\ threads[disk[path].thread].auto_rename
        /\ threads[disk[path].thread].timestamp < clock
        /\ Len(path[3]) = 3

\* The request the scaling stage of a conversion would hand to the dispatcher:
\* the opened image, the slot's size, the algorithm and maintain_aspect flag
\* of the conversion, black padding.
DispatcherRequest(req) ==
    [op |-> "scale_image", image |-> OpenImage(req.file).value,
     tw |-> TargetDimensions(req.image_type)[1],
     th |-> TargetDimensions(req.image_type)[2],
     method |-> req.algorithm, maintain_aspect |-> req.maintain_aspect,
     bg |-> Black, env |-> req.env]

\* The conversion with ScalingManager.scale_image as its scaling stage,
\* followed by the post-processing and the save.
ConvertThroughDispatcher(req) ==
    ThenSave(ThenPostProcess(
                 ScalingManager_scale_image(
                     [current_method |-> "lanczos", default_method |-> "lanczos"],
                     DispatcherRequest(req), 1),
                 req),
             req)

\* C14: for a readable file and a valid slot, convert_resize_image saves what
\* it would save with ScalingManager.scale_image(image, TW, TH, algorithm,
\* maintain_aspect, black) as its scaling stage, and succeeds whenever that
\* does: in particular when the algorithm's scaler fails and Lanczos succeeds
\* it returns success with the Lanczos result.
C14_ScalingThroughDispatcher ==
    (ret # NoResult /\ call.file.readable /\ call.image_type \in DOMAIN DIMENSIONS) =>
        \A expected \in {ConvertThroughDispatcher(call)} :
            /\ expected.outcome = "ok" =>
                   ret.value = <<TRUE, call.output_path>> /\ ret.saved = expected.value
            /\ expected.outcome = "raise" => ret.value[1] = FALSE

\* ----------- specification: scale_image while another thread selects methods

\* The caller's thread enters scale_image: its frame holds the method
\* argument, the scalers invoked so far and, for reference, the selection the
\* manager had at entry.
ScaleImageEnter ==
    /\ ret = NoResult
    /\ threads = <<>>
    /\ threads' = <<[pc |-> "resolve", method |-> call.method, invoked |-> <<>>,
                     entered_with |-> current_method]>>
    /\ UNCHANGED <<call, ret, current_method, default_method, app, clock, disk>>

\* if method is None: method = self.current_method; if method not in
\* self.scalers: method = self.default_method.
ScaleImageResolve ==
    /\ threads # <<>>
    /\ threads[1].pc = "resolve"
    /\ threads' = <<[threads[1] EXCEPT !.method = ResolveMethod(@, Manager),
                                       !.pc = "invoke"]>>
    /\ UNCHANGED <<call, ret, current_method, default_method, app, clock, disk>>

\* The try statement: the scaler's result is returned; on an exception the
\* call re-enters scale_image with self.default_method unless the method was
\* the default one, and re-raises then.
ScaleImageInvoke ==
    /\ threads # <<>>
    /\ threads[1].pc = "invoke"
    /\ \E r \in {InvokeScaler(threads[1].method, call)} :
           IF r.outcome = "ok" \/ threads[1].method = default_method
           THEN /\ ret' = Invoked(r, Append(threads[1].invoked, threads[1].method))
                /\ threads' = <<[threads[1] EXCEPT !.invoked = Append(@, threads[1].method),
                                                   !.pc = "done"]>>
           ELSE /\ ret' = ret
                /\ threads' = <<[threads[1] EXCEPT
                                    !.invoked = Append(@, threads[1].method),
                                    !.method = RetryRequest(call, Manager).method,
                                    !.pc = "resolve"]>>
    /\ UNCHANGED <<call, current_method, default_method, app, clock, disk>>

\* The requests of the interleaved calls: one source size, black padding,
\* every method argument, both flags, every environment of ScaleEnvs.
RaceCalls ==
    {c \in ScaleCalls : c.image.w = 1 /\ c.image.h = 1 /\ c.bg = Black}

InitRace ==
    /\ call \in RaceCalls
    /\ ret = NoResult
    /\ Idle

NextRace == CallSetScalingMethod \/ ScaleImageEnter \/ ScaleImageResolve \/ ScaleImageInvoke

SpecRace == InitRace /\ [][NextRace]_vars

\* The manager as constructed, before any set_scaling_method call.
FreshManager == [current_method |-> "lanczos", default_method |-> "lanczos"]

\* C15: a scale_image call with an explicit algorithm argument returns (or
\* raises) what it does on a manager nobody has called set_scaling_method on,
\* having invoked the same scalers in the same order, whatever
\* set_scaling_method calls another thread makes before or during the call.
C15_ExplicitMethodIgnoresSelection ==
    (ret # NoResult /\ call.method # "None") =>
        ret = ScalingManager_scale_image(FreshManager, call, 1)

\* A call with an explicit algorithm fell back to Lanczos; the selection was
\* changed before the call and again while it ran.
C15_Witness ==
    /\ ret # NoResult
    /\ call.method \in ScalingMethods
    /\ Len(ret.invoked) = 2
    /\ threads[1].entered_with # "lanczos"
    /\ current_method # threads[1].entered_with

\* ------------- specification: the selection and a call without an algorithm

\* Number of set_scaling_method calls made before the request.
MaxSets == 2

\* manager.set_scaling_method(m); the caller notes the argument and the value
\* returned in app, the sequence of its selection calls so far.
SetScalingMethod ==
    \E m \in MethodArgs \ {"None"} :
        /\ ret = NoResult
        /\ Len(app) < MaxSets
        /\ \E s \in {ScalingManager_set_scaling_method(Manager, m)} :
               /\ current_method' = s.current_method
               /\ app' = Append(app, <<m, s.returned>>)
        /\ UNCHANGED <<call, ret, default_method, threads, clock, disk>>

NextSelect == SetScalingMethod \/ CallScaleImage

SpecSelect == InitRace /\ [][NextSelect]_vars

\* The argument of the last selection call that returned True, Lanczos if
\* there is none.
LastSelected(log) ==
    IF \E i \in DOMAIN log : log[i][2]
    THEN log[CHOOSE i \in DOMAIN log :
                 log[i][2] /\ \A j \in DOMAIN log : log[j][2] => j <= i][1]
    ELSE "lanczos"

\* C16: scale_image called without an algorithm invokes first the scaler of
\* the most recent set_scaling_method call that returned True, Lanczos if no
\* call did since construction, and returns what a call naming that algorithm
\* explicitly returns.
C16_OmittedMethodUsesSelection ==
    (ret # NoResult /\ call.method = "None") =>
        /\ ret.invoked[1] = LastSelected(app)
        /\ ret = ScalingManager_scale_image(
                     FreshManager, [call EXCEPT !.method = LastSelected(app)], 1)

\* A call without an algorithm after a selection that was accepted and a later
\* one that was refused.
C16_Witness ==
    /\ ret # NoResult
    /\ call.method = "None"
    /\ Len(app) = 2
    /\ app[1][2] /\ ~app[2][2]
    /\ app[1][1] # "lanczos"
    /\ ret.invoked[1] = app[1][1]

\* --------------------------------------------------------------- get_preview

\* round_aspect of Image.thumbnail for the width: of floor(y * w / h) and its
\* ceiling the one whose ratio to y is nearer w / h, the floor on a tie, and
\* at least 1.
RoundAspectWidth(w, h, y) ==
    LET f == (y * w) \div h
        c == IF (y * w) % h = 0 THEN f ELSE f + 1
        pick == IF (w * y - f * h) <= (c * h - w * y) THEN f ELSE c
    IN  IF pick < 1 THEN 1 ELSE pick

\* round_aspect for the height: of floor(x * h / w) and its ceiling the one n
\* with x / n nearer w / h (0 counts as nearest), the floor on a tie, and at
\* least 1.
RoundAspectHeight(w, h, x) ==
    LET f == (x * h) \div w
        c == IF (x * h) % w = 0 THEN f ELSE f + 1
        pick == IF f = 0 \/ (x * h - w * f) * c <= (w * c - x * h) * f THEN f ELSE c
    IN  IF pick < 1 THEN 1 ELSE pick

\* preserve_aspect_ratio of Image.thumbnail: the size the image gets, its own
\* when it already fits in size.
ThumbnailSize(w, h, size) ==
    IF size[1] >= w /\ size[2] >= h THEN <<w, h>>
    ELSE IF size[1] * h >= w * size[2]
    THEN <<RoundAspectWidth(w, h, size[2]), size[2]>>
    ELSE <<size[1], RoundAspectHeight(w, h, size[1])>>

\* processed_img.thumbnail(size): division by a zero height of size raises;
\* an image that fits is left alone; otherwise it is resized, with the
\* BICUBIC filter, to ThumbnailSize. The value is the preview's size together
\* with the raster it is a reduction of.
Thumbnail(img, size, env) ==
    IF size[1] >= img.w /\ size[2] >= img.h
    THEN Ok([raster |-> img, w |-> img.w, h |-> img.h, resampled |-> FALSE])
    ELSE IF size[2] = 0 THEN Raise("ZeroDivisionError")
    ELSE IF ThumbnailSize(img.w, img.h, size)[1] < 1 THEN Raise("ValueError")
    ELSE IF "BICUBIC" \in env.broken THEN Raise("ResampleError")
    ELSE Ok([raster |-> img, w |-> ThumbnailSize(img.w, img.h, size)[1],
             h |-> ThumbnailSize(img.w, img.h, size)[2], resampled |-> TRUE])

ThenThumbnail(post, req) ==
    Then(post, LAMBDA img : Thumbnail(img, req.max_preview_size, req.env))

PreviewBody_SkipsPostProcess(req) ==
    ThenThumbnail(ThenScale(OpenImage(req.file), TargetDimensions(req.image_type), req),
                  req)

\* The try block of get_preview: open, slot size, scaling stage,
\* post-processing, thumbnail.
PreviewBody(req) ==
    ThenThumbnail(ThenPostProcess(ThenScale(OpenImage(req.file),
                                            TargetDimensions(req.image_type), req),
                                  req),
                  req)

\* Python's None as a returned value.
None == [none |-> TRUE]

\* ImageProcessorEnhanced.get_preview: the preview, or None after any
\* exception.
ImageProcessorEnhanced_get_preview(req) ==
    Strict(PreviewBody(req), LAMBDA r : IF r.outcome = "ok" THEN r ELSE Ok(None))

\* ------------------------- specification: preview and conversion of one file

\* The preview size caps: the default and one with a zero height.
PreviewSizes == {<<300, 300>>, <<300, 0>>}

\* One file, slot, flags and algorithm, handed to convert_resize_image, to
\* get_preview and, as the scaling request of the same conversion, to the
\* dispatcher; any single pipeline step may raise.
PreviewCalls ==
    {c @@ [max_preview_size |-> size] :
        c \in {x \in ConvertCalls : x.env.broken = {}}, size \in PreviewSizes}

InitPreview ==
    /\ call \in PreviewCalls
    /\ ret = NoResult
    /\ Idle

\* processor.convert_resize_image(...)
CallConvert ==
    /\ ret = NoResult
    /\ ret' = ImageProcessorEnhanced_convert_resize_image(call) @@ [via |-> "convert"]
    /\ UNCHANGED <<call, current_method, default_method, batchVars>>

\* processor.get_preview(...)
CallGetPreview ==
    /\ ret = NoResult
    /\ ret' = ImageProcessorEnhanced_get_preview(call) @@ [via |-> "preview"]
    /\ UNCHANGED <<call, current_method, default_method, batchVars>>

\* manager.scale_image(img, tw, th, algorithm, maintain_aspect, black) on the
\* opened image and the slot's size.
CallManagerScale ==
    /\ ret = NoResult
    /\ call.file.readable
    /\ call.image_type \in DOMAIN DIMENSIONS
    /\ ret' = ScalingManager_scale_image(Manager, DispatcherRequest(call), 1)
              @@ [via |-> "manager"]
    /\ UNCHANGED <<call, current_method, default_method, batchVars>>

NextPreview == CallConvert \/ CallGetPreview \/ CallManagerScale

SpecPreview == InitPreview /\ [][NextPreview]_vars

\* What the operation that produced ret returns for the request req.
SameOperation(req) ==
    CASE ret.via = "convert" ->
             ImageProcessorEnhanced_convert_resize_image(req) @@ [via |-> "convert"]
      [] ret.via = "preview" ->
             ImageProcessorEnhanced_get_preview(req) @@ [via |-> "preview"]
      [] ret.via = "manager" ->
             ScalingManager_scale_image(FreshManager, DispatcherRequest(req), 1)
                 @@ [via |-> "manager"]

\* Nothing raises in the environment and the request is otherwise valid.
NothingFails ==
    /\ call.env.stepfail = {}
    /\ call.file.readable
    /\ call.image_type \in DOMAIN DIMENSIONS
    /\ call.max_preview_size[2] > 0
    /\ ~(call.maintain_aspect /\ call.file.w = 3000)

\* C17: a request naming an algorithm that is none of the seven gets, from
\* scale_image, convert_resize_image and get_preview alike, exactly what the
\* same request naming Lanczos gets; when no step fails that is a normal
\* result: an image from scale_image (one Lanczos invocation), (True,
\* output_path) from convert_resize_image, a preview from get_preview.
C17_UnknownAlgorithmServedByDefault ==
    (ret # NoResult /\ call.algorithm \notin ScalingMethods) =>
        /\ ret = SameOperation([call EXCEPT !.algorithm = "lanczos"])
        /\ NothingFails =>
               /\ ret.outcome = "ok"
               /\ ret.via = "manager" =>
                      ret.invoked = <<"lanczos">> /\ ret.value.kernel = "LANCZOS"
               /\ ret.via = "convert" =>
                      ret.value = <<TRUE, call.output_path>> /\ ret.saved.kernel = "LANCZOS"
               /\ ret.via = "preview" =>
                      ret.value # None /\ ret.value.raster.kernel = "LANCZOS"

\* The conversion of a file with an unknown algorithm name succeeded.
C17_Witness ==
    /\ ret # NoResult
    /\ call.algorithm \notin ScalingMethods
    /\ ret.via = "convert"
    /\ ret.value = <<TRUE, call.output_path>>

\* C18: for the same file, slot, flags and algorithm, the raster get_preview
\* reduces is the raster convert_resize_image saves, get_preview returns None
\* when the conversion fails before the save, and the preview is never wider
\* or higher than the size cap or than that raster.
C18_PreviewMatchesConversion ==
    (ret # NoResult /\ ret.via = "preview") =>
        \A conv \in {ImageProcessorEnhanced_convert_resize_image(call)} :
            /\ (ret.value # None /\ conv.value[1] = TRUE) =>
                   ret.value.raster = conv.saved
            /\ (conv.value[1] = FALSE /\ conv.value[2] # "OSError") => ret.value = None
            /\ (ret.value = None /\ call.max_preview_size[2] > 0) => conv.value[1] = FALSE
            /\ ret.value # None =>
                   /\ ret.value.w \in 1 .. call.max_preview_size[1]
                   /\ ret.value.h \in 1 .. call.max_preview_size[2]
                   /\ ret.value.w <= ret.value.raster.w
                   /\ ret.value.h <= ret.value.raster.h

\* A post-processed raster higher than the cap was reduced for the preview.
C18_Witness ==
    /\ ret # NoResult
    /\ ret.via = "preview"
    /\ ret.value # None
    /\ call.enhance_contrast
    /\ ret.value.resampled
    /\ ret.value.h < ret.value.raster.h

\* The quantization steps of the three channels.
ChannelSteps == <<8, 4, 8>>

Distance(a, b) == IF a >= b THEN a - b ELSE b - a

\* C19: a pixel that went through the quantization step has each channel at
\* most half a step (4 for red and blue, 2 for green) away from the value it
\* had when it entered the step, a result of 256 at the top of the range
\* having been clamped to 255 instead of wrapping around to 0.
C19_QuantizationWithinHalfStep ==
    (ret # NoResult /\ ret.outcome = "ok" /\ "quantize" \in Steps(ret.value)) =>
        \A c \in 1 .. 3 :
            /\ ret.value.px[c] \in 0 .. MaxChannel
            /\ 2 * Distance(ret.value.px[c], call.env.filtered[c]) <= ChannelSteps[c]

\* C20: an aspect-preserving ps2_optimized request served by the dispatcher's
\* PS2 scaler returns the raster the conversion's pipeline
\* (_resize_ps2_optimized with maintain_aspect) returns for the same image and
\* target, and when the quantization ran every pixel of it, the padding in
\* the background colour included, is on 5-6-5 levels.
C20_PS2LetterboxInsidePipeline ==
    (/\ ret # NoResult
     /\ call.method = "ps2_optimized"
     /\ call.maintain_aspect
     /\ ret.outcome = "ok"
     /\ ret.invoked = <<"ps2_optimized">>) =>
        /\ \A conv \in {ImageProcessorEnhanced_resize_ps2_optimized(
                            call.image, call.tw, call.th, TRUE, call.env)} :
               conv.outcome = "ok" /\ conv.value = ret.value
        /\ "quantize" \in Steps(ret.value) =>
               /\ Is565(ret.value.px)
               /\ ret.value.pad # <<>> => Is565(ret.value.pad)

\* The steps of the pipeline a failure of which is to be skipped.
SkippableSteps == {"contrast_1.10", "saturation_1.15", "quantize"}

\* The pipeline steps other than those in failed, in the pipeline's order.
StepsWithout(failed) ==
    SelectSeq(PS2Steps, LAMBDA name : name \notin failed)

\* C21: in both PS2 implementations, when only the contrast step, the
\* saturation step or the quantization step fails (the resize itself being
\* possible), the pipeline returns an image of the target size on which every
\* other step has run, in order; it does not raise.
C21_PS2StepFailuresAreSkipped ==
    (/\ ret # NoResult
     /\ call.env.stepfail \subseteq SkippableSteps
     /\ call.env.broken = {}
     /\ call.maintain_aspect =>
            /\ ContentSize(call.image.w, call.image.h, call.tw, call.th).w >= 1
            /\ ContentSize(call.image.w, call.image.h, call.tw, call.th).h >= 1) =>
        /\ ret.outcome = "ok"
        /\ ret.value.w = call.tw
        /\ ret.value.h = call.th
        /\ ret.value.ops = StepsWithout(call.env.stepfail)

\* a / b rounded to the nearest integer, a tie to the even one (Python's
\* round).
RoundDiv(a, b) ==
    LET q == a \div b
        r == a % b
    IN  IF 2 * r < b THEN q
        ELSE IF 2 * r > b THEN q + 1
        ELSE IF q % 2 = 0 THEN q ELSE q + 1

\* The content size with rounding: (TW, round(TW * sh / sw)) when the source
\* is wider than the box, (round(TH * sw / sh), TH) otherwise.
RoundedContentSize(sw, sh, tw, th) ==
    IF sw * th > tw * sh
    THEN [w |-> tw, h |-> RoundDiv(tw * sh, sw)]
    ELSE [w |-> RoundDiv(th * sw, sh), h |-> th]

\* C22: the content an aspect-preserving resize places on the canvas has the
\* size obtained by rounding to the nearest integer, in BaseScaler's and in
\* the processor's implementation alike.
C22_ContentSizeIsRounded ==
    (ret # NoResult /\ ret.outcome = "ok") =>
        /\ ret.value.cw = RoundedContentSize(call.sw, call.sh, call.tw, call.th).w
        /\ ret.value.ch = RoundedContentSize(call.sw, call.sh, call.tw, call.th).h

\* C23: for every source and target box of at least 1x1 the content size the
\* aspect-preserving resize computes lies within 1 .. TW by 1 .. TH with one
\* side equal to the box's, so the resize is never asked for an empty image
\* (it does not raise) and the content is pasted at non-negative offsets.
C23_ContentSizeWithinBox ==
    ret # NoResult =>
        /\ ContentSize(call.sw, call.sh, call.tw, call.th).w \in 1 .. call.tw
        /\ ContentSize(call.sw, call.sh, call.tw, call.th).h \in 1 .. call.th
        /\ \/ ContentSize(call.sw, call.sh, call.tw, call.th).w = call.tw
           \/ ContentSize(call.sw, call.sh, call.tw, call.th).h = call.th
        /\ ret.outcome = "ok"
        /\ ret.value.ox >= 0
        /\ ret.value.oy >= 0

\* What the enhanced processing path returns for input file number i of the
\* batch th with the algorithm and the post-processing flags selected in the
\* window.
SelectedConversion(th, i) ==
    ImageProcessorEnhanced_convert_resize_image(
        [ConversionRequest(th, th.input_files[i])
            EXCEPT !.algorithm = app.algorithm,
                   !.enhance_contrast = app.enhance_contrast,
                   !.sharpen = app.sharpen])

\* C24: with the scaling UI integrated, a started batch carries the algorithm
\* and the enhance-contrast and sharpen flags selected in the window when it
\* was started, and each of its files is converted as the enhanced path
\* converts it with those selections.
C24_ConvertRunsEnhancedPath ==
    \A t \in DOMAIN threads :
        app.integrated =>
            /\ threads[t].kind = "EnhancedProcessingThread"
            /\ threads[t].algorithm = app.algorithm
            /\ threads[t].enhance_contrast = app.enhance_contrast
            /\ threads[t].sharpen = app.sharpen
            /\ \A i \in DOMAIN threads[t].results :
                   threads[t].results[i] = SelectedConversion(threads[t], i).value

\* C25: every history entry describes the batch whose completion it records:
\* its timestamp, slot type and directory are those of the batch directory the
\* batch's files were written to, and its counts are the batch's.
C25_HistoryDescribesItsBatch ==
    \A k \in DOMAIN app.history :
        LET entry == app.history[k]
            th == threads[entry.batch]
        IN  /\ entry.timestamp = th.timestamp
            /\ entry.type = th.image_type
            /\ entry.directory = <<th.output_dir, <<th.image_type, th.timestamp>>>>
            /\ \A path \in DOMAIN disk :
                   disk[path].thread = entry.batch =>
                       SubSeq(path, 1, 2) = entry.directory
            /\ entry.total = Len(th.input_files)
            /\ entry.success = th.success_count

\* -------------------- specification: the window changes while a batch runs

\* OPLImageConverterApp._on_type_changed: a slot type button is chosen.
OnTypeChanged ==
    \E type_key \in DOMAIN DIMENSIONS :
        /\ app.events < MaxUiEvents
        /\ app' = [app EXCEPT !.image_type = type_key, !.events = @ + 1]
        /\ UNCHANGED <<pureVars, threads, clock, disk>>

\* OPLImageConverterApp._on_aspect_changed
OnAspectChanged ==
    /\ app.events < MaxUiEvents
    /\ app' = [app EXCEPT !.maintain_aspect = ~@, !.events = @ + 1]
    /\ UNCHANGED <<pureVars, threads, clock, disk>>

\* AlgorithmButton.on_algorithm_selected: current_algorithm = algorithm_id.
OnAlgorithmSelected ==
    \E algorithm_id \in ScalingMethods :
        /\ app.integrated
        /\ app.events < MaxUiEvents
        /\ app' = [app EXCEPT !.algorithm = algorithm_id, !.events = @ + 1]
        /\ UNCHANGED <<pureVars, threads, clock, disk>>

\* The enhance-contrast check box integrate_scaling_ui adds is toggled.
OnEnhanceToggled ==
    /\ app.integrated
    /\ app.events < MaxUiEvents
    /\ app' = [app EXCEPT !.enhance_contrast = ~@, !.events = @ + 1]
    /\ UNCHANGED <<pureVars, threads, clock, disk>>

\* The sharpen check box integrate_scaling_ui adds is toggled.
OnSharpenToggled ==
    /\ app.integrated
    /\ app.events < MaxUiEvents
    /\ app' = [app EXCEPT !.sharpen = ~@, !.events = @ + 1]
    /\ UNCHANGED <<pureVars, threads, clock, disk>>

\* The windows a batch is started from here: the default output directory
\* and slot type, any selection and check-box values, Lanczos or the PS2
\* algorithm; one more user action is possible afterwards.
IsolationApps ==
    {[a EXCEPT !.events = MaxUiEvents - 1] :
        a \in {x \in StartedApps : /\ x.output_dir = "OPL_Images"
                                   /\ x.image_type = "caratula"
                                   /\ x.algorithm \in {"lanczos", "ps2_optimized"}
                                   /\ ~x.sharpen}}

\* A convert handler constructs and starts the batch's worker.
StartBatch ==
    /\ threads = <<>>
    /\ app' \in {a \in IsolationApps : a.integrated = app.integrated}
    /\ \E enhanced \in {b \in BOOLEAN : b => app.integrated} :
           threads' = <<WorkerOf(app', enhanced)>>
    /\ UNCHANGED <<pureVars, clock, disk>>

NextIsolation ==
    \/ StartBatch
    \/ HandleDrop
    \/ ClearSelection
    \/ SelectOutputDir
    \/ OnRenameChanged
    \/ OnTypeChanged
    \/ OnAspectChanged
    \/ OnAlgorithmSelected
    \/ OnEnhanceToggled
    \/ OnSharpenToggled
    \/ ThreadStep(1)

SpecIsolation == Init /\ [][NextIsolation]_vars

\* The parameters a batch was started with.
BatchParameters(th) ==
    <<th.input_files, th.output_dir, th.image_type, th.maintain_aspect,
      th.auto_rename, th.algorithm, th.enhance_contrast, th.sharpen, th.timestamp>>

\* What the conversion of file f returns for a batch with the parameters of
\* th.
IsolatedConversion(th, f) ==
    ConversionOf(th.kind,
        [file |-> FileInfo(f),
         output_path |-> <<th.output_dir, <<th.image_type, th.timestamp>>,
                           NameFor(BaseName(f), th.image_type, th.auto_rename)>>,
         image_type |-> th.image_type, maintain_aspect |-> th.maintain_aspect,
         algorithm |-> th.algorithm, enhance_contrast |-> th.enhance_contrast,
         sharpen |-> th.sharpen, env |-> CleanEnv(<<7, 130, 252>>)])

\* The worker constructed in this step captured the window's file list,
\* output directory, slot type and the two flags of the original handler.
CapturesWindow ==
    /\ threads'[1].input_files = app'.input_files
    /\ threads'[1].output_dir = app'.output_dir
    /\ threads'[1].image_type = app'.image_type
    /\ threads'[1].maintain_aspect = app'.maintain_aspect
    /\ threads'[1].auto_rename = app'.auto_rename

\* The worker constructed in this step captured the algorithm and the
\* post-processing flags chosen in the window.
CapturesAlgorithm ==
    /\ threads'[1].algorithm = app'.algorithm
    /\ threads'[1].enhance_contrast = app'.enhance_contrast
    /\ threads'[1].sharpen = app'.sharpen

\* This step of a started batch leaves its parameters alone, and a file it
\* takes is the next one of the captured list, converted with them.
KeepsParameters ==
    /\ BatchParameters(threads'[1]) = BatchParameters(threads[1])
    /\ Len(threads'[1].results) > Len(threads[1].results) =>
           LET n == Len(threads'[1].results)
           IN  /\ n = Len(threads[1].results) + 1
               /\ threads'[1].attempted[n] = threads[1].input_files[n]
               /\ threads'[1].results[n] =
                      IsolatedConversion(threads[1], threads[1].input_files[n]).value
               /\ threads'[1].results[n][1] = TRUE =>
                      /\ threads'[1].results[n][2] \in DOMAIN disk'
                      /\ disk'[threads'[1].results[n][2]].image =
                             IsolatedConversion(threads[1],
                                                threads[1].input_files[n]).saved

\* What a started batch captured is never changed by the window afterwards:
\* the worker keeps its file list, output directory, slot type and flags,
\* and an EnhancedProcessingThread also its algorithm and post-processing
\* flags, whatever the user does while it runs.
BatchIsolatedFromWindow ==
    [][/\ (threads = <<>> /\ threads' # <<>>) =>
              /\ CapturesWindow
              /\ threads'[1].kind = "EnhancedProcessingThread" => CapturesAlgorithm
       /\ threads # <<>> => KeepsParameters
      ]_vars

\* C26: every file of a batch is converted with the file list, output
\* directory, slot type, maintain-aspect flag, auto-rename flag, algorithm and
\* post-processing flags in effect in the window when the batch was started,
\* whatever the user changes while it runs.
C26_BatchUsesParametersAtStart ==
    [][/\ (threads = <<>> /\ threads' # <<>>) =>
              /\ CapturesWindow
              /\ app'.integrated => CapturesAlgorithm
       /\ threads # <<>> => KeepsParameters
      ]_vars

\* ------------------------------------------------ order of the post-processing

\* The post-processing steps the flags of a conversion ask for, in order.
RequestedPostSteps(req) ==
    (IF req.enhance_contrast THEN <<"contrast_1.20">> ELSE <<>>)
        \o (IF req.sharpen THEN <<"sharpen">> ELSE <<>>)

\* How many times a step occurs in a sequence of steps.
Occurrences(ops, name) == Cardinality({i \in DOMAIN ops : ops[i] = name})

\* C27: the steps of an image convert_resize_image saved are the steps of the
\* scaling stage followed by exactly the requested post-processing: x1.20
\* contrast if asked, then sharpen if asked, each once, nothing else. The
\* scaling part contains the resize and no x1.20 contrast; for ps2_optimized
\* it is the pipeline (its own sharpen first, its x1.10 contrast and, unless
\* they failed, the quantization last), otherwise it contains no sharpen.
C27_PostProcessingAfterScaling ==
    (ret # NoResult /\ ret.outcome = "ok" /\ ret.value[1] = TRUE) =>
        LET ops == ret.saved.ops
            post == RequestedPostSteps(call)
            scaled == SubSeq(ops, 1, Len(ops) - Len(post))
        IN  /\ Len(ops) >= Len(post)
            /\ SubSeq(ops, Len(ops) - Len(post) + 1, Len(ops)) = post
            /\ Occurrences(scaled, "resize") = 1
            /\ Occurrences(ops, "contrast_1.20") = (IF call.enhance_contrast THEN 1 ELSE 0)
            /\ IF call.algorithm = "ps2_optimized"
               THEN /\ scaled = StepsWithout(call.env.stepfail)
                    /\ scaled[1] = "sharpen"
                    /\ Occurrences(ops, "sharpen") = (IF call.sharpen THEN 2 ELSE 1)
                    /\ "quantize" \notin call.env.stepfail =>
                           scaled[Len(scaled)] = "quantize"
                    /\ "contrast_1.10" \notin call.env.stepfail =>
                           Occurrences(scaled, "contrast_1.10") = 1
               ELSE /\ scaled = <<"resize">>
                    /\ Occurrences(ops, "sharpen") = (IF call.sharpen THEN 1 ELSE 0)

\* A PS2 conversion with both flags set saved its image.
C27_Witness ==
    /\ ret # NoResult
    /\ ret.outcome = "ok"
    /\ ret.value[1] = TRUE
    /\ call.algorithm = "ps2_optimized"
    /\ call.enhance_contrast
    /\ call.sharpen
    /\ call.env.stepfail = {}
    /\ ret.saved.ops = PS2Steps \o <<"contrast_1.20", "sharpen">>

\* ------------------------- specification: the manager and the clients' calls

\* Number of ScalingManager calls (constructions, selections, requests) made.
MaxManagerCalls == 3

\* A ScalingManager object as super().__new__ returns it, with the flag
\* __new__ sets on it; the attributes __init__ assigns are not set yet.
NewManagerObject ==
    [initialized |-> FALSE, scalers |-> {}, default_method |-> "unset",
     current_method |-> "unset"]

ScalingManager_new_AlwaysAllocates(cls) ==
    [instance |-> Len(cls.heap) + 1, heap |-> Append(cls.heap, NewManagerObject)]

\* ScalingManager.__new__: the class attribute _instance (0 is None) and the
\* objects allocated so far, after the call; instance is the object returned.
ScalingManager_new(cls) ==
    IF cls.instance = 0
    THEN [instance |-> Len(cls.heap) + 1, heap |-> Append(cls.heap, NewManagerObject)]
    ELSE [instance |-> cls.instance, heap |-> cls.heap]

ScalingManager_init_Reinitializes(self) ==
    [initialized |-> TRUE, scalers |-> ScalingMethods,
     default_method |-> "lanczos", current_method |-> "lanczos"]

\* ScalingManager.__init__ on the object __new__ returned: nothing when it is
\* already initialized, otherwise the scaler table and Lanczos as default and
\* current method.
ScalingManager_init(self) ==
    IF self.initialized THEN self
    ELSE [initialized |-> TRUE, scalers |-> ScalingMethods,
          default_method |-> "lanczos", current_method |-> "lanczos"]

\* The process before any ScalingManager is constructed: app holds the class
\* attribute, the objects allocated, the references the clients obtained, and
\* the number of calls made.
InitManager ==
    /\ app = [instance |-> 0, heap |-> <<>>, refs |-> <<>>, calls |-> 0]
    /\ call = [op |-> "none"]
    /\ ret = NoResult
    /\ current_method = "lanczos"
    /\ default_method = "lanczos"
    /\ threads = <<>>
    /\ clock = 0
    /\ disk = <<>>

\* ScalingManager(): __new__, then __init__ on what it returned; the client
\* keeps the reference.
ConstructManager ==
    /\ app.calls < MaxManagerCalls
    /\ \E made \in {ScalingManager_new(app)} :
           /\ app' = [instance |-> made.instance,
                      heap |-> [made.heap EXCEPT ![made.instance] = ScalingManager_init(@)],
                      refs |-> Append(app.refs, made.instance),
                      calls |-> app.calls + 1]
           /\ ret' = Ok(made.instance)
    /\ call' = [op |-> "construct"]
    /\ UNCHANGED <<current_method, default_method, threads, clock, disk>>

\* set_scaling_method(m) on a reference a client holds.
ManagerSetScalingMethod ==
    \E i \in DOMAIN app.refs, m \in MethodArgs \ {"None"} :
        /\ app.calls < MaxManagerCalls
        /\ \E s \in {ScalingManager_set_scaling_method(app.heap[app.refs[i]], m)} :
               /\ app' = [app EXCEPT !.heap[app.refs[i]].current_method = s.current_method,
                                     !.calls = @ + 1]
               /\ ret' = Ok(s.returned)
        /\ call' = [op |-> "set_scaling_method", self |-> app.refs[i], method |-> m]
        /\ UNCHANGED <<current_method, default_method, threads, clock, disk>>

\* The requests made of the manager here: every algorithm argument, with and
\* without aspect, healthy resampling or one broken filter.
ManagerRequests ==
    {c \in RaceCalls : /\ c.env.stepfail = {}
                       /\ c.env.broken \in {{}, {"LANCZOS"}, {"BICUBIC"}}}

ManagerScaleImage_SelectsUsed ==
    \E i \in DOMAIN app.refs, req \in ManagerRequests :
        /\ app.calls < MaxManagerCalls
        /\ \E r \in {ScalingManager_scale_image(app.heap[app.refs[i]], req, 1)} :
               /\ ret' = r
               /\ app' = [app EXCEPT !.heap[app.refs[i]].current_method =
                                         IF r.invoked = <<>> THEN @
                                         ELSE r.invoked[Len(r.invoked)],
                                     !.calls = @ + 1]
        /\ call' = req @@ [self |-> app.refs[i]]
        /\ UNCHANGED <<current_method, default_method, threads, clock, disk>>

\* scale_image(...) on a reference a client holds: the method assigns no
\* attribute of the manager.
ManagerScaleImage ==
    \E i \in DOMAIN app.refs, req \in ManagerRequests :
        /\ app.calls < MaxManagerCalls
        /\ ret' = ScalingManager_scale_image(app.heap[app.refs[i]], req, 1)
        /\ app' = [app EXCEPT !.calls = @ + 1]
        /\ call' = req @@ [self |-> app.refs[i]]
        /\ UNCHANGED <<current_method, default_method, threads, clock, disk>>

NextManager == ConstructManager \/ ManagerSetScalingMethod \/ ManagerScaleImage

SpecManager == InitManager /\ [][NextManager]_vars

\* C28: every constructed manager's current algorithm is one of the seven
\* known algorithms after any sequence of calls; a set_scaling_method call
\* with a known algorithm returns True and makes it current, with any other
\* value it returns False and the current algorithm stays what it was.
C28_SelectionAlwaysKnown ==
    [][/\ \A o \in DOMAIN app'.heap : app'.heap[o].current_method \in ScalingMethods
       /\ Cardinality(ScalingMethods) = 7
       /\ (app'.calls > app.calls /\ call'.op = "set_scaling_method") =>
              IF call'.method \in ScalingMethods
              THEN /\ ret' = Ok(TRUE)
                   /\ app'.heap[call'.self].current_method = call'.method
              ELSE /\ ret' = Ok(FALSE)
                   /\ app'.heap[call'.self].current_method =
                          app.heap[call'.self].current_method
      ]_vars

\* A selection was accepted and a later one refused.
C28_Witness ==
    /\ app.calls = 3
    /\ call.op = "set_scaling_method"
    /\ call.method = "mitchell"
    /\ ret = Ok(FALSE)
    /\ app.heap[call.self].current_method = "ps2_optimized"

\* C29: a scale_image call leaves the selection state of every manager as it
\* was before the call: current_method and default_method keep their values,
\* whether the call succeeds, falls back to the default, substitutes the
\* default for an unknown algorithm, or raises.
C29_ScaleImageKeepsSelection ==
    [][(app'.calls > app.calls /\ call'.op = "scale_image") =>
           /\ DOMAIN app'.heap = DOMAIN app.heap
           /\ \A o \in DOMAIN app.heap :
                  /\ app'.heap[o].current_method = app.heap[o].current_method
                  /\ app'.heap[o].default_method = app.heap[o].default_method
      ]_vars

\* A request for the selected algorithm, not the default, fell back to the
\* default scaler after the selected one failed.
C29_Witness ==
    /\ call.op = "scale_image"
    /\ ret # NoResult
    /\ ret.outcome = "ok"
    /\ Len(ret.invoked) = 2
    /\ app.heap[call.self].current_method = "bicubic"
    /\ app.heap[call.self].default_method = "lanczos"

\* A request that raised, with an algorithm other than the default selected.
C29_RaisedWitness ==
    /\ call.op = "scale_image"
    /\ ret # NoResult
    /\ ret.outcome = "raise"
    /\ app.heap[call.self].current_method = "bicubic"

\* C30: every construction returns the same object, and a construction made
\* when a manager already exists changes nothing of it: the current
\* algorithm chosen by set_scaling_method, the default and the scaler table
\* stay as they were.
C30_ManagerIsSingleton ==
    [][/\ \A i, j \in DOMAIN app'.refs : app'.refs[i] = app'.refs[j]
       /\ (app'.calls > app.calls /\ call'.op = "construct" /\ app.instance # 0) =>
              /\ ret' = Ok(app.instance)
              /\ app'.instance = app.instance
              /\ app'.heap = app.heap
      ]_vars

\* A second construction after the selection had been changed.
C30_Witness ==
    /\ call.op = "construct"
    /\ Len(app.refs) = 2
    /\ app.calls = 3
    /\ app.heap[app.refs[2]].current_method = "ps2_optimized"
    /\ app.heap[app.refs[2]].scalers = ScalingMethods

=========================================================================
